---- MODULE Spec2Model ----
(***************************************************************************)
(* Model of cql::cql_session_impl_t (src/src/cql/internal/                 *)
(* cql_session_impl.cpp): the per-host connection pool, the connection     *)
(* counters, the trashcan and the host-selection loop connect(), run by    *)
(* several caller threads, the reactor (connect callbacks, stream          *)
(* releases, connection failures, trashcan timer) and close().            *)
(*                                                                         *)
(* Every access to a shared object (pool map, collection, counter,         *)
(* trashcan, a connection's stream pool) is one step of the calling        *)
(* thread.  cql_connection_t, cql_connections_collection_t and             *)
(* cql_trashcan_t are not part of the sources at hand; their operations    *)
(* follow the specification's description of them.                         *)
(***************************************************************************)
EXTENDS Integers, Sequences, FiniteSets, TLC

\* ------------------------------------------------------------------ bounds
\* Number of connection objects _client_callback() may create in one run.
MaxConnIds == 2

\* ----------------------------------------------------------- configuration
\* pooling_options().max_connection_per_host(distance)
MaxConnectionsPerHost == 2
\* pooling_options().core_connections_per_host(distance)
CoreConnectionsPerHost == 1
\* pooling_options().max_simultaneous_requests_per_connection_treshold(distance)
MaxSimultaneousRequests == 1
\* pooling_options().min_simultaneous_requests_per_connection_treshold(distance)
MinSimultaneousRequests == 0
\* size of a connection's stream-id pool
NumberOfStreams == 1
\* _reconnect_limit as set by the constructor
ReconnectLimit == 0

Threads == {"t1", "t2"}
Endpoints == {1, 2}
ConnIds == 1..MaxConnIds

\* The deployments explored: which threads call the session, which query
\* plans the load balancing policy hands out, whether the application
\* calls close().
Deployments ==
    { [callers |-> {"t1", "t2"}, plans |-> {<<1>>},              closes |-> FALSE],
      [callers |-> {"t1"},       plans |-> {<<>>, <<1, 2>>},     closes |-> FALSE],
      [callers |-> {"t1"},       plans |-> {<<1>>},              closes |-> TRUE] }

NoConn == 0
NoHost == 0

VARIABLES
    cfg,            \* the deployment, fixed for a run
    ready,          \* _ready
    defunct,        \* _defunct
    clients,        \* _clients: connection -> error count
    pool,           \* _connection_pool: endpoint -> set of connection ids
    counters,       \* _connection_counters: endpoint -> count
    trash,          \* _trashcan: endpoint -> sequence of connection ids
    conn,           \* the connection objects created so far
    created,        \* number of connection objects created so far
    th,             \* per caller thread: its position in connect() and locals
    readyCalls,     \* invocations of _ready_callback
    defunctCalls,   \* invocations of _defunct_callback
    closeDone       \* close() has returned at least once

vars == <<cfg, ready, defunct, clients, pool, counters, trash, conn, created, th,
          readyCalls, defunctCalls, closeDone>>

\* -------------------------------------------------------------- helpers
\* a caller thread that is not inside connect()
IdleThread ==
    [pc |-> "idle", plan |-> <<>>, tried |-> <<>>, host |-> NoHost,
     todo |-> {}, cur |-> NoConn, origin |-> "none", dial |-> "none",
     promise |-> "unset", res |-> "none", stream |-> "none",
     afterClose |-> FALSE, seen |-> <<>>, coll |-> "none"]

\* a connection object as _client_callback() returns it
NewConnection(ep) ==
    [ep |-> ep, healthy |-> TRUE, closed |-> FALSE, inflight |-> 0,
     freed |-> 0]

NotCreated ==
    [ep |-> NoHost, healthy |-> TRUE, closed |-> FALSE, inflight |-> 0,
     freed |-> 0]

Min(S) == CHOOSE x \in S : \A y \in S : x <= y

\* cql_connection_t::is_healthy
is_healthy(c) == conn[c].healthy
\* cql_connection_t::is_busy(max): the in-flight count has reached the watermark
is_busy(c, max) == conn[c].inflight >= max
\* cql_connection_t::is_free(min): the in-flight count is at or below the watermark
is_free(c, min) == conn[c].inflight <= min
\* cql_connection_t::acquire_stream yields a valid stream iff one is free
stream_available(c) == conn[c].inflight < NumberOfStreams

\* _connection_counters.try_get(endpoint): the count, 0 when none is installed
CounterOf(ep) == IF ep \in DOMAIN counters THEN counters[ep] ELSE 0
\* connections->size() for an endpoint, 0 when no collection is installed
PoolOf(ep) == IF ep \in DOMAIN pool THEN pool[ep] ELSE {}

\* get_max_connections_number(host)
get_max_connections_number(host) == MaxConnectionsPerHost

\* (*counter)--, lines 96-98 and 143-146: only when a counter is installed
DecrementedCounters(ep) ==
    IF ep \in DOMAIN counters
    THEN [counters EXCEPT ![ep] = @ - 1]
    ELSE counters

\* cql_connection_t::close
ClosedConn(c) == [conn EXCEPT ![c].closed = TRUE]

\* the thread leaves connect() with a connection and its stream
Returned(t, c, s) ==
    [th[t] EXCEPT !.pc = "done", !.res = "conn", !.cur = c, !.stream = s,
                  !.todo = {}]
\* the thread leaves connect() by an exception
Thrown(t, e) ==
    [th[t] EXCEPT !.pc = "done", !.res = e, !.cur = NoConn, !.stream = "none",
                  !.todo = {}]

Init ==
    /\ cfg \in Deployments
    /\ ready = FALSE
    /\ defunct = FALSE
    /\ clients = <<>>
    /\ pool = <<>>
    /\ counters = <<>>
    /\ trash = [e \in Endpoints |-> <<>>]
    /\ conn = [c \in ConnIds |-> NotCreated]
    /\ created = 0
    /\ th = [t \in Threads |-> IdleThread]
    /\ readyCalls = 0
    /\ defunctCalls = 0
    /\ closeDone = FALSE

\* ------------------------------------------------- connect(), lines 247-292
\* get_connection / init: a caller enters connect() with a fresh query plan
Start(t, p) ==
    /\ t \in cfg.callers
    /\ p \in cfg.plans
    /\ th[t].pc = "idle"
    /\ th' = [th EXCEPT ![t] = [IdleThread EXCEPT !.pc = "next", !.plan = p,
                                                   !.afterClose = closeDone]]
    /\ UNCHANGED <<cfg, ready, defunct, clients, pool, counters, trash, conn,
                   created, readyCalls, defunctCalls, closeDone>>

\* what the loop of connect() saw of a host: seen lists, in the order of the
\* visits, each host next_host_to_query returned with the answer of its
\* is_considerably_up
Visit(h, up) == [host |-> h, up |-> up]

\* the loop with push_back (line 262) placed before the test of line 258
NextHostPushFirst(t) ==
    /\ th[t].pc = "next"
    /\ IF th[t].plan = <<>>
       THEN th' = [th EXCEPT ![t] = Thrown(t, "NoHostAvailable")]
       ELSE \E up \in BOOLEAN :
              LET h == Head(th[t].plan) IN
              th' = [th EXCEPT ![t] =
                       IF up
                       THEN [@ EXCEPT !.plan = Tail(@), !.host = h,
                                      !.tried = Append(@, h),
                                      !.seen = Append(@, Visit(h, up)),
                                      !.pc = "pool_get"]
                       ELSE [@ EXCEPT !.plan = Tail(@),
                                      !.tried = Append(@, h),
                                      !.seen = Append(@, Visit(h, up))]]
    /\ UNCHANGED <<cfg, ready, defunct, clients, pool, counters, trash, conn,
                   created, readyCalls, defunctCalls, closeDone>>

\* the loop without the throw of line 291: past the last host connect()
\* returns an empty connection
NextHostNoThrow(t) ==
    /\ th[t].pc = "next"
    /\ IF th[t].plan = <<>>
       THEN th' = [th EXCEPT ![t] = Returned(t, NoConn, "invalid")]
       ELSE \E up \in BOOLEAN :
              LET h == Head(th[t].plan) IN
              th' = [th EXCEPT ![t] =
                       IF up
                       THEN [@ EXCEPT !.plan = Tail(@), !.host = h,
                                      !.tried = Append(@, h),
                                      !.seen = Append(@, Visit(h, up)),
                                      !.pc = "pool_get"]
                       ELSE [@ EXCEPT !.plan = Tail(@),
                                      !.seen = Append(@, Visit(h, up))]]
    /\ UNCHANGED <<cfg, ready, defunct, clients, pool, counters, trash, conn,
                   created, readyCalls, defunctCalls, closeDone>>

\* lines 256-263 and 291: next_host_to_query, is_considerably_up, push_back
NextHost(t) ==
    /\ th[t].pc = "next"
    /\ IF th[t].plan = <<>>
       THEN th' = [th EXCEPT ![t] = Thrown(t, "NoHostAvailable")]
       ELSE \E up \in BOOLEAN :
              LET h == Head(th[t].plan) IN
              th' = [th EXCEPT ![t] =
                       IF up
                       THEN [@ EXCEPT !.plan = Tail(@), !.host = h,
                                      !.tried = Append(@, h),
                                      !.seen = Append(@, Visit(h, up)),
                                      !.pc = "pool_get"]
                       ELSE [@ EXCEPT !.plan = Tail(@),
                                      !.seen = Append(@, Visit(h, up))]]
    /\ UNCHANGED <<cfg, ready, defunct, clients, pool, counters, trash, conn,
                   created, readyCalls, defunctCalls, closeDone>>

\* add_to_connection_pool, line 185: _connection_pool.try_get; on success
\* result is the collection installed for the endpoint (coll), and
\* try_find_free_stream starts its iteration over it (line 221)
PoolGet(t) ==
    /\ th[t].pc = "pool_get"
    /\ th' = [th EXCEPT ![t] =
                IF th[t].host \in DOMAIN pool
                THEN [@ EXCEPT !.pc = "examine", !.todo = pool[th[t].host],
                               !.coll = "installed"]
                ELSE [@ EXCEPT !.pc = "pool_add"]]
    /\ UNCHANGED <<cfg, ready, defunct, clients, pool, counters, trash, conn,
                   created, readyCalls, defunctCalls, closeDone>>

\* add_to_connection_pool returning empty_collection after try_add instead
\* of looping back to try_get: a caller whose try_add found another
\* collection installed goes on with its own, empty one
PoolAddReturnsOwn(t) ==
    /\ th[t].pc = "pool_add"
    /\ pool' = IF th[t].host \in DOMAIN pool
               THEN pool
               ELSE [e \in DOMAIN pool \cup {th[t].host} |->
                       IF e = th[t].host THEN {} ELSE pool[e]]
    /\ th' = [th EXCEPT ![t] =
                [@ EXCEPT !.pc = "examine", !.todo = {},
                          !.coll = IF th[t].host \in DOMAIN pool
                                   THEN "own" ELSE "installed"]]
    /\ UNCHANGED <<cfg, ready, defunct, clients, counters, trash, conn,
                   created, readyCalls, defunctCalls, closeDone>>

\* add_to_connection_pool, lines 186-191: _connection_pool.try_add
PoolAdd(t) ==
    /\ th[t].pc = "pool_add"
    /\ pool' = IF th[t].host \in DOMAIN pool
               THEN pool
               ELSE [e \in DOMAIN pool \cup {th[t].host} |->
                       IF e = th[t].host THEN {} ELSE pool[e]]
    /\ th' = [th EXCEPT ![t].pc = "pool_get"]
    /\ UNCHANGED <<cfg, ready, defunct, clients, counters, trash, conn,
                   created, readyCalls, defunctCalls, closeDone>>

\* the chain with the size test of line 235 not strict
ExaminedAtCore(t, c) ==
    IF ~is_healthy(c) THEN "remove"
    ELSE IF ~is_busy(c, MaxSimultaneousRequests) THEN "acquire"
    ELSE IF Cardinality(PoolOf(th[t].host)) >= CoreConnectionsPerHost
         THEN "trash_check"
    ELSE "examine"

\* the chain with the test of line 230 inverted: a busy connection is the
\* one a stream is acquired on
ExaminedInverted(t, c) ==
    IF ~is_healthy(c) THEN "remove"
    ELSE IF is_busy(c, MaxSimultaneousRequests) THEN "acquire"
    ELSE IF Cardinality(PoolOf(th[t].host)) > CoreConnectionsPerHost
         THEN "trash_check"
    ELSE "examine"

\* where try_find_free_stream goes with the connection it looks at,
\* lines 227-240: the if / else-if chain
Examined(t, c) ==
    IF ~is_healthy(c) THEN "remove"
    ELSE IF ~is_busy(c, MaxSimultaneousRequests) THEN "acquire"
    ELSE IF Cardinality(PoolOf(th[t].host)) > CoreConnectionsPerHost
         THEN "trash_check"
    ELSE "examine"

\* the loop moves on to the next connection of the iteration
Skip(t) == [th[t] EXCEPT !.pc = "examine", !.todo = @ \ {th[t].cur},
                         !.cur = NoConn]

\* try_find_free_stream, lines 221-235 and 243-244: the loop head and the
\* conditions of the chain
Examine(t) ==
    /\ th[t].pc = "examine"
    /\ th' = [th EXCEPT ![t] =
                IF th[t].todo = {}
                THEN [@ EXCEPT !.pc = "recycle", !.cur = NoConn]
                ELSE LET c == Min(th[t].todo) IN
                     IF Examined(t, c) = "examine"
                     THEN [@ EXCEPT !.todo = @ \ {c}]
                     ELSE [@ EXCEPT !.pc = Examined(t, c), !.cur = c]]
    /\ UNCHANGED <<cfg, ready, defunct, clients, pool, counters, trash, conn,
                   created, readyCalls, defunctCalls, closeDone>>

\* try_remove_connection without the test of try_erase's result: a caller
\* whose erase found the connection gone frees it all the same
RemoveUnconditional(t) ==
    /\ th[t].pc = "remove"
    /\ pool' = IF th[t].cur \in PoolOf(th[t].host)
               THEN [pool EXCEPT ![th[t].host] = @ \ {th[t].cur}]
               ELSE pool
    /\ th' = [th EXCEPT ![t].pc = "free"]
    /\ UNCHANGED <<cfg, ready, defunct, clients, counters, trash, conn,
                   created, readyCalls, defunctCalls, closeDone>>

\* try_remove_connection, line 207: connections->try_erase
Remove(t) ==
    /\ th[t].pc = "remove"
    /\ IF th[t].cur \in PoolOf(th[t].host)
       THEN /\ pool' = [pool EXCEPT ![th[t].host] = @ \ {th[t].cur}]
            /\ th' = [th EXCEPT ![t].pc = "free"]
       ELSE /\ pool' = pool
            /\ th' = [th EXCEPT ![t] = Skip(t)]
    /\ UNCHANGED <<cfg, ready, defunct, clients, counters, trash, conn,
                   created, readyCalls, defunctCalls, closeDone>>

\* free_connection that closes the connection and forgets the counter
free_connection_keeps_count(c) ==
    /\ conn' = [ClosedConn(c) EXCEPT ![c].freed = @ + 1]
    /\ counters' = counters

\* free_connection, lines 85-99: close the connection, decrement the
\* counter; freed counts the calls of free_connection on the connection
free_connection(c) ==
    /\ conn' = [ClosedConn(c) EXCEPT ![c].freed = @ + 1]
    /\ counters' = DecrementedCounters(conn[c].ep)

\* try_remove_connection, line 208
Free(t) ==
    /\ th[t].pc = "free"
    /\ free_connection(th[t].cur)
    /\ th' = [th EXCEPT ![t] = Skip(t)]
    /\ UNCHANGED <<cfg, ready, defunct, clients, pool, trash,
                   created, readyCalls, defunctCalls, closeDone>>

\* try_find_free_stream, lines 231-233: acquire_stream, return if valid
Acquire(t) ==
    /\ th[t].pc = "acquire"
    /\ IF stream_available(th[t].cur)
       THEN /\ conn' = [conn EXCEPT ![th[t].cur].inflight = @ + 1]
            /\ th' = [th EXCEPT ![t] =
                        [Returned(t, th[t].cur, "valid") EXCEPT !.origin = "pool"]]
       ELSE /\ conn' = conn
            /\ th' = [th EXCEPT ![t] = Skip(t)]
    /\ UNCHANGED <<cfg, ready, defunct, clients, pool, counters, trash,
                   created, readyCalls, defunctCalls, closeDone>>

\* try_find_free_stream, lines 236-237: is_free, connections->try_erase
TrashCheck(t) ==
    /\ th[t].pc = "trash_check"
    /\ IF /\ is_free(th[t].cur, MinSimultaneousRequests)
          /\ th[t].cur \in PoolOf(th[t].host)
       THEN /\ pool' = [pool EXCEPT ![th[t].host] = @ \ {th[t].cur}]
            /\ th' = [th EXCEPT ![t].pc = "put"]
       ELSE /\ pool' = pool
            /\ th' = [th EXCEPT ![t] = Skip(t)]
    /\ UNCHANGED <<cfg, ready, defunct, clients, counters, trash, conn,
                   created, readyCalls, defunctCalls, closeDone>>

\* a put that takes the connection out of the endpoint's count
PutDiscounting(t) ==
    /\ th[t].pc = "put"
    /\ trash' = [trash EXCEPT ![th[t].host] = Append(@, th[t].cur)]
    /\ counters' = DecrementedCounters(th[t].host)
    /\ th' = [th EXCEPT ![t] = Skip(t)]
    /\ UNCHANGED <<cfg, ready, defunct, clients, pool, conn,
                   created, readyCalls, defunctCalls, closeDone>>

\* try_find_free_stream, line 238: _trashcan.put
Put(t) ==
    /\ th[t].pc = "put"
    /\ trash' = [trash EXCEPT ![th[t].host] = Append(@, th[t].cur)]
    /\ th' = [th EXCEPT ![t] = Skip(t)]
    /\ UNCHANGED <<cfg, ready, defunct, clients, pool, counters, conn,
                   created, readyCalls, defunctCalls, closeDone>>

\* connect, lines 273-279: _trashcan.recycle hands out the connection put
\* last; is_healthy decides between reuse and free_connection
Recycle(t) ==
    /\ th[t].pc = "recycle"
    /\ LET q == trash[th[t].host] IN
       IF q = <<>>
       THEN /\ trash' = trash
            /\ th' = [th EXCEPT ![t].pc = "increase"]
       ELSE LET c == q[Len(q)] IN
            /\ trash' = [trash EXCEPT ![th[t].host] = SubSeq(q, 1, Len(q) - 1)]
            /\ th' = [th EXCEPT ![t] =
                        IF is_healthy(c)
                        THEN [@ EXCEPT !.pc = "conn_add", !.cur = c,
                                       !.origin = "recycle"]
                        ELSE [@ EXCEPT !.pc = "free_recycled", !.cur = c]]
    /\ UNCHANGED <<cfg, ready, defunct, clients, pool, counters, conn,
                   created, readyCalls, defunctCalls, closeDone>>

\* connect, lines 275-276: free_connection of an unhealthy recycled connection
FreeRecycled(t) ==
    /\ th[t].pc = "free_recycled"
    /\ free_connection(th[t].cur)
    /\ th' = [th EXCEPT ![t] = [@ EXCEPT !.pc = "increase", !.cur = NoConn]]
    /\ UNCHANGED <<cfg, ready, defunct, clients, pool, trash,
                   created, readyCalls, defunctCalls, closeDone>>

\* --------------------------------------- allocate_connection, lines 151-177
\* lines 158-168: the promise, _client_callback(), connection->connect(...)
BeginDial(t) ==
    /\ created < MaxConnIds
    /\ created' = created + 1
    /\ conn' = [conn EXCEPT ![created + 1] = NewConnection(th[t].host)]
    /\ th' = [th EXCEPT ![t] = [@ EXCEPT !.pc = "wait", !.cur = created + 1,
                                         !.origin = "dial", !.dial = "dialing",
                                         !.promise = "unset"]]

\* increase_connection_counter, lines 121-126: try_add of a counter of 1,
\* else try_get and (*counter)++
Increase(t) ==
    /\ th[t].pc = "increase"
    /\ IF th[t].host \notin DOMAIN counters
       THEN /\ counters' = [e \in DOMAIN counters \cup {th[t].host} |->
                              IF e = th[t].host THEN 1 ELSE counters[e]]
            /\ BeginDial(t)
       ELSE /\ counters' = [counters EXCEPT ![th[t].host] = @ + 1]
            /\ th' = [th EXCEPT ![t].pc = "cap_check"]
            /\ UNCHANGED <<conn, created>>
    /\ UNCHANGED <<cfg, ready, defunct, clients, pool, trash,
                   readyCalls, defunctCalls, closeDone>>

\* increase_connection_counter, line 127: the counter is read again and
\* compared with the cap
CapCheck(t) ==
    /\ th[t].pc = "cap_check"
    /\ IF CounterOf(th[t].host) > get_max_connections_number(th[t].host)
       THEN /\ th' = [th EXCEPT ![t].pc = "rollback"]
            /\ UNCHANGED <<conn, created>>
       ELSE BeginDial(t)
    /\ UNCHANGED <<cfg, ready, defunct, clients, pool, counters, trash,
                   readyCalls, defunctCalls, closeDone>>

\* increase_connection_counter, lines 128-129, and allocate_connection,
\* line 156: roll back, throw cql_too_many_connections_per_host_exception,
\* which connect() does not catch
Rollback(t) ==
    /\ th[t].pc = "rollback"
    /\ counters' = DecrementedCounters(th[t].host)
    /\ th' = [th EXCEPT ![t] = Thrown(t, "TooManyConnectionsPerHost")]
    /\ UNCHANGED <<cfg, ready, defunct, clients, pool, trash, conn,
                   created, readyCalls, defunctCalls, closeDone>>

\* connect_callback, lines 474-485, run by the reactor when the dial succeeds
connect_callback(t) ==
    /\ th[t].pc = "wait"
    /\ th[t].dial = "dialing"
    /\ defunct' = FALSE
    /\ ready' = TRUE
    /\ th' = [th EXCEPT ![t] = [@ EXCEPT !.dial = "connected",
                                         !.promise = "value"]]
    /\ readyCalls' = readyCalls + 1
    /\ UNCHANGED <<cfg, clients, pool, counters, trash, conn, created,
                   defunctCalls, closeDone>>

\* a connect_errback that declares the session defunct for a failed
\* connection it does not find in _clients, and leaves _ready as it is
connect_errback_keeps_ready(t) ==
    /\ th[t].pc = "wait"
    /\ th[t].dial = "dialing"
    /\ LET c == th[t].cur IN
       IF th[t].host \in DOMAIN pool /\ c \in DOMAIN clients
       THEN IF clients[c] + 1 > ReconnectLimit
            THEN LET rest == [x \in DOMAIN clients \ {c} |-> clients[x]] IN
                 /\ clients' = rest
                 /\ th' = [th EXCEPT ![t] = [@ EXCEPT !.dial = "failed",
                                                      !.promise = "error"]]
                 /\ IF DOMAIN rest = {}
                    THEN /\ ready' = FALSE
                         /\ defunct' = TRUE
                         /\ defunctCalls' = defunctCalls + 1
                    ELSE UNCHANGED <<cfg, ready, defunct, defunctCalls>>
            ELSE /\ clients' = [clients EXCEPT ![c] = @ + 1]
                 /\ UNCHANGED <<th, ready, defunct, defunctCalls>>
       ELSE /\ th' = [th EXCEPT ![t].dial = "failed"]
            /\ defunct' = TRUE
            /\ UNCHANGED <<clients, ready, defunctCalls>>
    /\ UNCHANGED <<cfg, pool, counters, trash, conn, created, readyCalls,
                   closeDone>>

\* connect_errback, lines 487-529, run by the reactor when the dial fails:
\* it looks the failed connection up in _clients
connect_errback(t) ==
    /\ th[t].pc = "wait"
    /\ th[t].dial = "dialing"
    /\ LET c == th[t].cur IN
       IF th[t].host \in DOMAIN pool /\ c \in DOMAIN clients
       THEN IF clients[c] + 1 > ReconnectLimit
            THEN LET rest == [x \in DOMAIN clients \ {c} |-> clients[x]] IN
                 /\ clients' = rest
                 /\ th' = [th EXCEPT ![t] = [@ EXCEPT !.dial = "failed",
                                                      !.promise = "error"]]
                 /\ IF DOMAIN rest = {}
                    THEN /\ ready' = FALSE
                         /\ defunct' = TRUE
                         /\ defunctCalls' = defunctCalls + 1
                    ELSE UNCHANGED <<cfg, ready, defunct, defunctCalls>>
            ELSE /\ clients' = [clients EXCEPT ![c] = @ + 1]
                 /\ UNCHANGED <<th, ready, defunct, defunctCalls>>
       ELSE /\ th' = [th EXCEPT ![t].dial = "failed"]
            /\ UNCHANGED <<clients, ready, defunct, defunctCalls>>
    /\ UNCHANGED <<cfg, pool, counters, trash, conn, created, readyCalls,
                   closeDone>>

\* allocate_connection, lines 170-176: shared_future.wait() returns once the
\* promise holds a value; on error decrease_connection_counter and throw
AllocWait(t) ==
    /\ th[t].pc = "wait"
    /\ th[t].promise # "unset"
    /\ IF th[t].promise = "error"
       THEN /\ counters' = DecrementedCounters(th[t].host)
            /\ th' = [th EXCEPT ![t] = Thrown(t, "ConnectFailed")]
       ELSE /\ counters' = counters
            /\ th' = [th EXCEPT ![t].pc = "conn_add"]
    /\ UNCHANGED <<cfg, ready, defunct, clients, pool, trash, conn,
                   created, readyCalls, defunctCalls, closeDone>>

\* connect, line 286: connections->try_add(conn->id(), conn)
ConnAdd(t) ==
    /\ th[t].pc = "conn_add"
    /\ pool' = [pool EXCEPT ![th[t].host] = @ \cup {th[t].cur}]
    /\ th' = [th EXCEPT ![t].pc = "final_acquire"]
    /\ UNCHANGED <<cfg, ready, defunct, clients, counters, trash, conn,
                   created, readyCalls, defunctCalls, closeDone>>

\* connect, lines 287-288: acquire_stream, return conn whatever the stream
FinalAcquire(t) ==
    /\ th[t].pc = "final_acquire"
    /\ IF stream_available(th[t].cur)
       THEN /\ conn' = [conn EXCEPT ![th[t].cur].inflight = @ + 1]
            /\ th' = [th EXCEPT ![t] = Returned(t, th[t].cur, "valid")]
       ELSE /\ conn' = conn
            /\ th' = [th EXCEPT ![t] = Returned(t, th[t].cur, "invalid")]
    /\ UNCHANGED <<cfg, ready, defunct, clients, pool, counters, trash,
                   created, readyCalls, defunctCalls, closeDone>>

\* get_connection returns to query / prepare / init, or the exception leaves
\* them: the caller is free to dispatch again
Finish(t) ==
    /\ th[t].pc = "done"
    /\ th' = [th EXCEPT ![t] = IdleThread]
    /\ UNCHANGED <<cfg, ready, defunct, clients, pool, counters, trash, conn,
                   created, readyCalls, defunctCalls, closeDone>>

\* ------------------------------------------------------ close, lines 428-444
\* a close() that also gives back each closed connection's count, and leaves
\* the connection in its collection
CloseStateCounting(s) ==
    [s EXCEPT !.conn = [c \in ConnIds |->
                 IF \E e \in DOMAIN s.pool : c \in s.pool[e]
                 THEN [s.conn[c] EXCEPT !.closed = TRUE]
                 ELSE s.conn[c]],
              !.counters = [e \in DOMAIN s.counters |->
                 IF e \in DOMAIN s.pool
                 THEN s.counters[e] - Cardinality(s.pool[e])
                 ELSE s.counters[e]]]

\* the session after close(): every connection of every collection closed
CloseState(s) ==
    [s EXCEPT !.conn = [c \in ConnIds |->
        IF \E e \in DOMAIN s.pool : c \in s.pool[e]
        THEN [s.conn[c] EXCEPT !.closed = TRUE]
        ELSE s.conn[c]]]

\* what close() can touch: the pool, the counters, the trashcan, the flags
\* and the connections
SessionState ==
    [pool |-> pool, counters |-> counters, trash |-> trash, ready |-> ready,
     defunct |-> defunct, conn |-> conn]

close ==
    /\ cfg.closes
    /\ LET s == CloseState(SessionState) IN
       /\ pool' = s.pool
       /\ counters' = s.counters
       /\ trash' = s.trash
       /\ ready' = s.ready
       /\ defunct' = s.defunct
       /\ conn' = s.conn
    /\ closeDone' = TRUE
    /\ UNCHANGED <<cfg, clients, created, th, readyCalls, defunctCalls>>

\* size, lines 446-458
size ==
    LET RECURSIVE Sum(_)
        Sum(S) == IF S = {} THEN 0
                  ELSE LET e == CHOOSE x \in S : TRUE IN
                       Cardinality(pool[e]) + Sum(S \ {e})
    IN Sum(DOMAIN pool)

\* ------------------------------------------------------------ environment
\* a protocol error, socket error or timeout flips a connection's healthy flag
ConnFail(c) ==
    /\ c <= created
    /\ conn[c].healthy
    /\ conn' = [conn EXCEPT ![c].healthy = FALSE]
    /\ UNCHANGED <<cfg, ready, defunct, clients, pool, counters, trash,
                   created, th, readyCalls, defunctCalls, closeDone>>

\* a response arrives (or init releases its stream, line 64): release_stream
ReleaseStream(c) ==
    /\ c <= created
    /\ conn[c].inflight > 0
    /\ conn' = [conn EXCEPT ![c].inflight = @ - 1]
    /\ UNCHANGED <<cfg, ready, defunct, clients, pool, counters, trash,
                   created, th, readyCalls, defunctCalls, closeDone>>

\* the trashcan's timer reaps the oldest entry of an endpoint: the connection
\* is closed and its endpoint counter decremented (free_connection)
Reap(e) ==
    /\ trash[e] # <<>>
    /\ trash' = [trash EXCEPT ![e] = Tail(@)]
    /\ free_connection(Head(trash[e]))
    /\ UNCHANGED <<cfg, ready, defunct, clients, pool,
                   created, th, readyCalls, defunctCalls, closeDone>>

Next ==
    \/ \E t \in Threads, p \in {<<>>, <<1>>, <<1, 2>>} : Start(t, p)
    \/ \E t \in Threads : NextHost(t)
    \/ \E t \in Threads : PoolGet(t)
    \/ \E t \in Threads : PoolAdd(t)
    \/ \E t \in Threads : Examine(t)
    \/ \E t \in Threads : Remove(t)
    \/ \E t \in Threads : Free(t)
    \/ \E t \in Threads : Acquire(t)
    \/ \E t \in Threads : TrashCheck(t)
    \/ \E t \in Threads : Put(t)
    \/ \E t \in Threads : Recycle(t)
    \/ \E t \in Threads : FreeRecycled(t)
    \/ \E t \in Threads : Increase(t)
    \/ \E t \in Threads : CapCheck(t)
    \/ \E t \in Threads : Rollback(t)
    \/ \E t \in Threads : connect_callback(t)
    \/ \E t \in Threads : connect_errback(t)
    \/ \E t \in Threads : AllocWait(t)
    \/ \E t \in Threads : ConnAdd(t)
    \/ \E t \in Threads : FinalAcquire(t)
    \/ \E t \in Threads : Finish(t)
    \/ close
    \/ \E c \in ConnIds : ConnFail(c)
    \/ \E c \in ConnIds : ReleaseStream(c)
    \/ \E e \in Endpoints : Reap(e)

Spec == Init /\ [][Next]_vars

\* ------------------------------------------------------------ properties
\* dispatches whose dial of ep is pending: the connection is being dialed, or
\* is dialed and about to be added to the collection
PendingDials(ep) ==
    {t \in Threads : /\ th[t].host = ep
                     /\ \/ th[t].pc = "wait"
                        \/ th[t].pc = "conn_add" /\ th[t].origin = "dial"}

\* dispatches that hold a counted connection of ep outside the pool and the
\* trashcan (erased and not yet freed or put, recycled and not yet pooled),
\* or an increment of ep's counter that is not yet checked or rolled back
InTransit(ep) ==
    {t \in Threads : /\ th[t].host = ep
                     /\ \/ th[t].pc \in {"cap_check", "rollback", "free",
                                          "put", "free_recycled"}
                        \/ th[t].pc = "conn_add" /\ th[t].origin = "recycle"}

CapRespected ==
    \A ep \in Endpoints : CounterOf(ep) <= MaxConnectionsPerHost

\* C3: no dispatch returns, from try_find_free_stream or after
\* trashcan.recycle, a connection whose healthy flag is false when it is
\* returned.
NoResurrection ==
    [][\A t \in Threads :
          (/\ th[t].pc # "done"
           /\ th'[t].pc = "done"
           /\ th'[t].res = "conn"
           /\ th'[t].origin \in {"pool", "recycle"})
          => conn[th'[t].cur].healthy]_vars

\* C4: a dial failure on one host does not fail or stall the dispatch while
\* other hosts remain in its plan: once the dial has failed the dispatch
\* leaves allocate_connection, and it does not end with the dial's error.
DialFailureRecovered ==
    \A t \in Threads :
        th[t].plan # <<>> =>
            /\ (th[t].pc = "wait" /\ th[t].dial = "failed")
                   => ENABLED AllocWait(t)
            /\ ~(th[t].pc = "done" /\ th[t].res = "ConnectFailed")

\* C5: a cap failure on one host ends a dispatch only when no other host
\* remains in its query plan.
CapFailureRecovered ==
    \A t \in Threads :
        (th[t].pc = "done" /\ th[t].res = "TooManyConnectionsPerHost")
            => th[t].plan = <<>>

\* C6: when close returns, every connection that was pooled is closed and
\* size() is 0.
CloseEmptiesPool ==
    [][close => /\ \A e \in DOMAIN pool : \A c \in pool[e] : conn'[c].closed
                /\ size' = 0]_vars

\* C7: a dispatch that starts after close has completed never dials and
\* ends with NoHostAvailable.
AfterCloseNoHostAvailable ==
    \A t \in Threads :
        th[t].afterClose =>
            /\ th[t].pc # "wait"
            /\ th[t].pc = "done" => th[t].res = "NoHostAvailable"

\* C8: from any reachable state, close twice leaves the pool, the counters,
\* the trashcan, the flags and each connection's open/closed state as close
\* once does.
CloseIdempotent ==
    CloseState(CloseState(SessionState)) = CloseState(SessionState)

\* C8 witness: close has run on a session with a pooled connection, which it
\* closed
CloseIdempotentWitness ==
    /\ closeDone
    /\ \E e \in DOMAIN pool : \E c \in pool[e] : conn[c].closed
    /\ CloseState(SessionState) = SessionState

\* C9: ready_callback fires only in a step that takes ready from false to
\* true, and once; defunct_callback only in a step that takes defunct from
\* false to true, and once.
CallbackOnce ==
    [][/\ readyCalls' # readyCalls
            => (~ready /\ ready' /\ readyCalls' = readyCalls + 1)
       /\ defunctCalls' # defunctCalls
            => (~defunct /\ defunct' /\ defunctCalls' = defunctCalls + 1)]_vars

\* the outcome C10 expects of a dispatch over two hosts whose dials fail
DefunctOutcome(t) ==
    /\ th[t].pc = "done"
    /\ th[t].res = "NoHostAvailable"
    /\ th[t].tried = <<1, 2>>
    /\ defunct
    /\ defunctCalls = 1

\* C10: a dispatch over a two-host plan whose dial has failed has either
\* ended with NoHostAvailable, both endpoints tried, defunct set and
\* defunct_callback fired once, or can still move on towards that end.
DefunctTransition ==
    \A t \in Threads :
        (th[t].dial = "failed" /\ Len(th[t].tried) + Len(th[t].plan) = 2)
            => (DefunctOutcome(t) \/ ENABLED AllocWait(t))

\* ----------------------------------------------------- dial failure
\* The scheduling the program relies on: the reactor runs the callback of a
\* dial in progress, and a thread waiting on the connect-future runs again
\* once the promise is fulfilled.
FairSpec ==
    /\ Spec
    /\ \A t \in Threads :
        /\ WF_vars(connect_callback(t) \/ connect_errback(t))
        /\ WF_vars(AllocWait(t))

\* C11: when a dial has ended in error, allocate_connection eventually stops
\* waiting on the connect-future and the dispatch fails with ConnectFailed;
\* no dispatch stays blocked on a failed dial.
FailedDialEnds ==
    \A t \in Threads :
        (th[t].dial = "failed")
            ~> (th[t].pc = "done" /\ th[t].res = "ConnectFailed")

\* ------------------------------------------------------ saturated endpoint
\* the endpoint holds exactly the cap of pooled connections, all of them
\* healthy and busy
Saturated(ep) ==
    /\ Cardinality(PoolOf(ep)) = MaxConnectionsPerHost
    /\ \A c \in PoolOf(ep) :
          conn[c].healthy /\ conn[c].inflight >= MaxSimultaneousRequests

\* the positions of a dispatch that has found every connection busy so far
SaturatedPath ==
    {"examine", "trash_check", "recycle", "increase", "cap_check", "rollback"}

\* the dispatch of t looks at the connections the saturated pool holds
ReachesSaturated(t) ==
    /\ th[t].pc \in SaturatedPath
    /\ Saturated(th[t].host)
    /\ th[t].todo \subseteq PoolOf(th[t].host)
    /\ th[t].cur \in PoolOf(th[t].host) \cup {NoConn}

\* C12: on an endpoint that holds max_connections_per_host pooled
\* connections, all busy, every step of a dispatch leads towards the failure
\* TooManyConnectionsPerHost: no connection is created, none is taken from
\* or added to the pool or the trashcan, and when the dispatch has failed
\* the counter is back at the value it had before the dispatch counted
\* itself in.
SaturatedFails ==
    [][\A t \in Threads :
          (ReachesSaturated(t) /\ th'[t] # th[t]) =>
             /\ th'[t].pc \in SaturatedPath \cup {"done"}
             /\ created' = created
             /\ pool' = pool
             /\ trash' = trash
             /\ th'[t].pc = "done" =>
                  /\ th'[t].res = "TooManyConnectionsPerHost"
                  /\ CounterOf(th[t].host)' = CounterOf(th[t].host) - 1
                  /\ (\A u \in Threads \ {t} :
                         th[u].pc \notin {"cap_check", "rollback"})
                       => CounterOf(th[t].host)' = MaxConnectionsPerHost]_vars

\* a dispatch has failed with TooManyConnectionsPerHost on a saturated
\* endpoint whose counter stands at the cap
SaturatedFailsWitness ==
    \E t \in Threads :
        /\ th[t].pc = "done"
        /\ th[t].res = "TooManyConnectionsPerHost"
        /\ Saturated(th[t].host)
        /\ CounterOf(th[t].host) = MaxConnectionsPerHost
        /\ created = MaxConnectionsPerHost

\* ------------------------------------------------------- returned stream
\* C13: whenever a dispatch returns a connection, the stream returned with
\* it is valid, also when the connection was dialed or recycled from the
\* trashcan.
ReturnedStreamValid ==
    \A t \in Threads :
        (th[t].pc = "done" /\ th[t].res = "conn") => th[t].stream = "valid"

\* ------------------------------------------------------------ trashcan
\* C14: a dispatch takes a connection towards the trashcan (lines 236-238)
\* only when the pool size it reads on line 235 is strictly greater than
\* core_connections_per_host; with the pool at its core size no connection
\* is taken there.
TrashOnlyAboveCore ==
    [][\A t \in Threads :
          (th[t].pc = "examine" /\ th'[t].pc \in {"trash_check", "put"})
             => Cardinality(PoolOf(th[t].host)) > CoreConnectionsPerHost]_vars

\* a dispatch has gone through a pool of core size whose one connection is
\* idle and still pooled, and nothing went to the trashcan
TrashOnlyAboveCoreWitness ==
    \E t \in Threads :
        /\ cfg.callers = {t}
        /\ th[t].pc = "recycle"
        /\ Cardinality(PoolOf(th[t].host)) = CoreConnectionsPerHost
        /\ \E c \in PoolOf(th[t].host) :
              conn[c].healthy /\ is_free(c, MinSimultaneousRequests)
        /\ trash[th[t].host] = <<>>

\* C15: the steps of a trashcan round trip - the erase from the pool, the
\* put, the recycle of a healthy connection and its return to the pool -
\* each leave every counter unchanged, and once returned the recycled
\* connection is a member of its endpoint's pool again.
RoundTripKeepsCount ==
    [][\A t \in Threads :
          /\ (th[t].pc \in {"trash_check", "put"} /\ th'[t] # th[t])
                => counters' = counters
          /\ (th[t].pc = "recycle" /\ th'[t].pc = "conn_add")
                => counters' = counters
          /\ (th[t].pc = "conn_add" /\ th[t].origin = "recycle"
                /\ th'[t] # th[t])
                => /\ counters' = counters
                   /\ th[t].cur \in PoolOf(th[t].host)']_vars

\* a dispatch has returned a connection it recycled: the connection is
\* pooled and the endpoint's counter stands where it stood with both
\* connections pooled
RoundTripWitness ==
    \E t \in Threads :
        /\ th[t].pc = "done"
        /\ th[t].res = "conn"
        /\ th[t].origin = "recycle"
        /\ th[t].cur \in PoolOf(th[t].host)
        /\ trash[th[t].host] = <<>>
        /\ CounterOf(th[t].host) = Cardinality(PoolOf(th[t].host))
        /\ CounterOf(th[t].host) > CoreConnectionsPerHost

\* the connection the loop of try_find_free_stream looks at next is pooled,
\* healthy and drained to the lower watermark, in a pool above its core
\* size, and no other dispatch is under way
LooksAtDrained(t) ==
    /\ \A u \in Threads \ {t} : th[u].pc = "idle"
    /\ th[t].pc = "examine"
    /\ th[t].todo # {}
    /\ Min(th[t].todo) \in PoolOf(th[t].host)
    /\ conn[Min(th[t].todo)].healthy
    /\ is_free(Min(th[t].todo), MinSimultaneousRequests)
    /\ Cardinality(PoolOf(th[t].host)) > CoreConnectionsPerHost

\* C16: with more pooled connections than core_connections_per_host, a
\* dispatch that comes to a connection drained to
\* min_simultaneous_requests or fewer takes it out of the pool towards the
\* trashcan.
DrainedIsTrashed ==
    [][\A t \in Threads :
          (LooksAtDrained(t) /\ th'[t] # th[t])
             => /\ th'[t].pc \in {"trash_check", "put"}
                /\ th'[t].cur = Min(th[t].todo)]_vars

\* ------------------------------------------------------------ tried list
\* the hosts of the visits that found the host considerably up, in order
RECURSIVE UpHosts(_)
UpHosts(s) ==
    IF s = <<>> THEN <<>>
    ELSE IF Head(s).up THEN <<Head(s).host>> \o UpHosts(Tail(s))
    ELSE UpHosts(Tail(s))

\* the hosts of the visits, in order
HostsOf(s) == [i \in 1..Len(s) |-> s[i].host]

\* C17: at every point of a dispatch the tried-list is exactly the sequence,
\* in plan order, of the hosts visited so far that were considerably up; a
\* host that is not considerably up is skipped and not recorded. The hosts
\* visited, followed by the hosts still to come, are the query plan.
TriedIsUpHosts ==
    \A t \in Threads :
        /\ th[t].tried = UpHosts(th[t].seen)
        /\ th[t].pc # "idle" => HostsOf(th[t].seen) \o th[t].plan \in cfg.plans

\* a dispatch has skipped a host that is not considerably up and has gone
\* on to one that is
TriedIsUpHostsWitness ==
    \E t \in Threads :
        /\ th[t].seen = <<Visit(1, FALSE), Visit(2, TRUE)>>
        /\ th[t].tried = <<2>>
        /\ th[t].pc = "done"
        /\ th[t].res = "conn"

\* ------------------------------------------------------------ empty plan
\* the dispatch of t is over a query plan without hosts
EmptyPlan(t) ==
    /\ th[t].pc = "next"
    /\ th[t].plan = <<>>
    /\ th[t].seen = <<>>

\* C18: a dispatch over an empty query plan fails with NoHostAvailable and an
\* empty tried-list in its one step, which leaves the pool, the counters,
\* the trashcan and the connections as they were.
EmptyPlanFails ==
    [][\A t \in Threads :
          (EmptyPlan(t) /\ th'[t] # th[t])
             => /\ th'[t].pc = "done"
                /\ th'[t].res = "NoHostAvailable"
                /\ th'[t].tried = <<>>
                /\ UNCHANGED <<pool, counters, trash, conn, created>>]_vars

\* a dispatch over an empty plan has failed with NoHostAvailable
EmptyPlanWitness ==
    \E t \in Threads :
        /\ th[t].pc = "done"
        /\ th[t].res = "NoHostAvailable"
        /\ th[t].seen = <<>>
        /\ th[t].tried = <<>>
        /\ th[t].plan = <<>>

\* -------------------------------------------------- add_to_connection_pool
\* the positions of connect() past add_to_connection_pool
HoldsCollection ==
    {"examine", "remove", "free", "acquire", "trash_check", "put", "recycle",
     "free_recycled", "increase", "cap_check", "rollback", "wait",
     "conn_add", "final_acquire"}

\* C19: every call of add_to_connection_pool, however it interleaves with
\* the others, returns a collection, and the one installed for its
\* endpoint; a collection once installed is never removed, and try_add
\* leaves an installed collection as it is.
OneCollection ==
    [][\A t \in Threads :
          /\ th'[t].pc \in HoldsCollection => th'[t].coll # "none"
          /\ th'[t].coll # "none" =>
                /\ th'[t].coll = "installed"
                /\ th'[t].host \in DOMAIN pool'
          /\ \A e \in DOMAIN pool :
                /\ e \in DOMAIN pool'
                /\ (th[t].pc = "pool_add" /\ th'[t] # th[t])
                      => pool'[e] = pool[e]]_vars

\* two callers are past add_to_connection_pool for the same endpoint, whose
\* collection has just been installed, and both hold that collection
OneCollectionWitness ==
    \E t, u \in Threads :
        /\ t # u
        /\ th[t].host = th[u].host
        /\ th[t].pc = "examine" /\ th[u].pc = "examine"
        /\ th[t].coll = "installed" /\ th[u].coll = "installed"
        /\ pool[th[t].host] = {}
        /\ counters = <<>>

\* ------------------------------------------------------------- eviction
\* C21: a dispatch that comes to an unhealthy connection goes to
\* try_remove_connection with it; of the dispatches that do so at the same
\* time the one whose try_erase finds the connection takes it out of the
\* collection, closes it and decrements its endpoint's counter by one, the
\* others change nothing; and no connection is ever freed twice.
EvictedOnce ==
    [][\A t \in Threads :
          /\ (/\ th[t].pc = "examine" /\ th'[t] # th[t]
              /\ th[t].todo # {} /\ ~conn[Min(th[t].todo)].healthy)
                => /\ th'[t].pc = "remove"
                   /\ th'[t].cur = Min(th[t].todo)
          /\ (/\ th[t].pc = "remove" /\ th'[t] # th[t]
              /\ th[t].cur \in PoolOf(th[t].host))
                => /\ th[t].cur \notin PoolOf(th[t].host)'
                   /\ th'[t].pc = "free"
          /\ (/\ th[t].pc = "remove" /\ th'[t] # th[t]
              /\ th[t].cur \notin PoolOf(th[t].host))
                => /\ th'[t].pc = "examine"
                   /\ UNCHANGED <<pool, conn, counters, trash>>
          /\ (th[t].pc = "free" /\ th'[t] # th[t])
                => /\ conn'[th[t].cur].closed
                   /\ CounterOf(th[t].host)' = CounterOf(th[t].host) - 1
                   /\ conn[th[t].cur].freed = 0
          /\ \A c \in ConnIds : conn'[c].freed <= 1]_vars

\* two dispatches went to try_remove_connection with the same unhealthy
\* connection: one has erased it and is about to free it, the other's
\* try_erase is still to come
EvictedOnceWitness ==
    \E t, u \in Threads :
        /\ t # u
        /\ th[t].pc = "free"
        /\ th[u].pc = "remove"
        /\ th[t].cur = th[u].cur
        /\ ~conn[th[t].cur].healthy

\* ------------------------------------------------- trashcan and core size
\* C22: the erase that takes a connection towards the trashcan never leaves
\* an endpoint with fewer pooled connections than
\* core_connections_per_host, also when several dispatches have read the
\* size of the collection before the erase of the others.
TrashKeepsCore ==
    [][\A t \in Threads :
          (th[t].pc = "trash_check" /\ th'[t].pc = "put")
             => Cardinality(PoolOf(th[t].host))' >= CoreConnectionsPerHost]_vars

\* ------------------------------------------------- trashcan and dispatch
\* the connections that sit in the trashcan
Trashed ==
    UNION {{trash[e][i] : i \in 1..Len(trash[e])} : e \in Endpoints}

\* C23: a dispatch never returns a connection that sits in the trashcan at
\* the moment of the return, whatever the interleaving of the dispatch that
\* moves the connection there with the one that acquires a stream on it.
NeverReturnsTrashed ==
    [][\A t \in Threads :
          (th[t].pc # "done" /\ th'[t].pc = "done" /\ th'[t].res = "conn")
             => th'[t].cur \notin Trashed']_vars

====
